---- MODULE Spec2Model ----
(***************************************************************************)
(* The APOGEE Expose widget of STUI (TUI/Inst/APOGEE/ExposeWdg.py) as a    *)
(* state machine: the widgets' fields, the keyword variables they read,    *)
(* the exposure script and the commands sent to the actor.                  *)
(*                                                                         *)
(* Python strings are TLA+ strings; a float is an integer count of         *)
(* hundredths (12.34 is 1234); an optional value is <<>> (None) or <<v>>.  *)
(* The isCurrent flags of widgets only colour the display and are left     *)
(* out.  The startup routine runTUI (TUI/Main.py) is a second state        *)
(* machine, one step per statement, on the variable tui.                   *)
(***************************************************************************)
EXTENDS Integers, Sequences, FiniteSets, TLC

VARIABLES
    model,           \* the keyword variables of actor apogee (TUI.Models)
    ditherNameWdg,   \* OptionMenu: items, var, defValue
    ditherPosWdg,    \* FloatEntry: var, defValueStr, minValue, maxValue, gridded
    expTypeWdg,      \* OptionMenu: items, var, defValue
    numReadsWdg,     \* IntEntry: var, defValueStr
    estReadTimeWdg,  \* StrLabel: the text shown
    buttons,         \* enable state of exposeBtn, stopBtn, cancelBtn
    scriptRunner,    \* ScriptRunner: state, position and locals of the run function
    sent,            \* the commands handed to the dispatcher, oldest first
    err,             \* the exception raised while handling the last event ("" if none)
    tui              \* runTUI: its position, the Tk root, sys.path, stdout, what it loaded

vars == <<model, ditherNameWdg, ditherPosWdg, expTypeWdg, numReadsWdg,
          estReadTimeWdg, buttons, scriptRunner, sent, err, tui>>

----------------------------------------------------------------------------
(* Optional values *)

None == <<>>
Some(v) == <<v>>
Val(o) == o[1]

----------------------------------------------------------------------------
(* String indexing, formatting and parsing *)

\* s[i] of Python, i counted from 0; the caller checks i < Len(s)
CharAt(s, i) == SubSeq(s, i + 1, i + 1)

DigitStr(d) == SubSeq("0123456789", d + 1, d + 1)

RECURSIVE NatStr(_)
NatStr(n) == IF n < 10 THEN DigitStr(n) ELSE NatStr(n \div 10) \o DigitStr(n % 10)

Abs(n) == IF n < 0 THEN -n ELSE n
Sign(n) == IF n < 0 THEN "-" ELSE ""

\* "%d" % n
FmtD(n) == Sign(n) \o NatStr(Abs(n))

\* "%0.2f" % x, x in hundredths
Fmt2f(h) == Sign(h) \o NatStr(Abs(h) \div 100) \o "."
            \o DigitStr((Abs(h) \div 10) % 10) \o DigitStr(Abs(h) % 10)

\* "%0.1f" % x, x in hundredths
Fmt1f(h) == LET t == (Abs(h) + 5) \div 10
            IN  Sign(h) \o NatStr(t \div 10) \o "." \o DigitStr(t % 10)

\* "%0.0f" % x, x in hundredths
Fmt0f(h) == Sign(h) \o NatStr((Abs(h) + 50) \div 100)

IsDigit(c) == \E d \in 0..9 : DigitStr(d) = c
DigitVal(c) == CHOOSE d \in 0..9 : DigitStr(d) = c

RECURSIVE StrToNat(_)
StrToNat(s) ==
    IF Len(s) = 0 THEN 0
    ELSE StrToNat(SubSeq(s, 1, Len(s) - 1)) * 10 + DigitVal(CharAt(s, Len(s) - 1))

\* int(s) for a string of digits with an optional sign
StrToInt(s) ==
    IF Len(s) > 0 /\ CharAt(s, 0) = "-" THEN -StrToNat(SubSeq(s, 2, Len(s)))
    ELSE StrToNat(s)

\* float(s), in hundredths, for digits "." digits with an optional sign
StrToFloat(s) ==
    LET neg  == Len(s) > 0 /\ CharAt(s, 0) = "-"
        body == IF neg THEN SubSeq(s, 2, Len(s)) ELSE s
        dots == {i \in 1..Len(body) : SubSeq(body, i, i) = "."}
        dot  == IF dots = {} THEN Len(body) + 1 ELSE CHOOSE i \in dots : TRUE
        ip   == SubSeq(body, 1, dot - 1)
        fp   == SubSeq(body, dot + 1, Len(body)) \o "00"
        mag  == StrToNat(ip) * 100 + StrToNat(SubSeq(fp, 1, 2))
    IN  IF neg THEN -mag ELSE mag

----------------------------------------------------------------------------
(* Bounds and the values the events are drawn from *)

\* Start and Stop are pressed only while fewer commands than this were sent
MaxSent == 2

RunningExposureStates == {"Exposing", "READING", "INTEGRATING", "PROCESSING", "UTR"}

\* numReadsWdg: defValue and minValue
NumReadsDef == 60
NumReadsMin == 1

\* the element types of the keyword variables the callbacks format
KeyTypes == [ditherPosition       |-> <<"Float", "String">>,
             ditherNamedPositions |-> <<"Float", "Float">>]

\* values a keyword variable can be updated to (the first is its value before
\* any data arrives)
KvDitherPosition == {<<None, None>>, <<Some(100), Some("A")>>, <<Some(1234), Some("?")>>}
KvDitherLimits == {<<None, None>>, <<Some(0), Some(2000)>>}
KvDitherNamedPositions == {<<None, None>>, <<Some(100), Some(250)>>}
KvExposureTypeList == {<<None>>, <<Some("Object"), Some("Dark"), Some("Flat")>>}
KvExposureState == {<<None, None, None>>,
                    <<Some("Exposing"), Some("Dark"), Some(10)>>,
                    <<Some("Done"), Some("Object"), Some(60)>>}
KvUtrReadTime == {<<None>>, <<Some(1070)>>}

\* what the user types into the entries (None empties the field)
UserDitherPos == {None, Some(50)}
UserNumReads == {None, Some(10)}

----------------------------------------------------------------------------
(* The state the handlers work on, as one record *)

Cur == [model |-> model, ditherNameWdg |-> ditherNameWdg, ditherPosWdg |-> ditherPosWdg,
        expTypeWdg |-> expTypeWdg, numReadsWdg |-> numReadsWdg,
        estReadTimeWdg |-> estReadTimeWdg, buttons |-> buttons,
        scriptRunner |-> scriptRunner, sent |-> sent, err |-> ""]

Commit(w) ==
    /\ model' = w.model
    /\ ditherNameWdg' = w.ditherNameWdg
    /\ ditherPosWdg' = w.ditherPosWdg
    /\ expTypeWdg' = w.expTypeWdg
    /\ numReadsWdg' = w.numReadsWdg
    /\ estReadTimeWdg' = w.estReadTimeWdg
    /\ buttons' = w.buttons
    /\ scriptRunner' = w.scriptRunner
    /\ sent' = w.sent
    /\ err' = w.err
    /\ tui' = tui

Raise(w, e) == [w EXCEPT !.err = e]

KeyVar(w, key) == [key |-> key, vals |-> w.model[key]]

\* "None in keyVar"
NoneIn(kv) == \E i \in 1..Len(kv.vals) : kv.vals[i] = None

SeqHas(items, v) == \E i \in 1..Len(items) : items[i] = v

----------------------------------------------------------------------------
(* RO.Wdg.OptionMenu and RO.Wdg.Entry, as the widget uses them *)

OptionMenuDefStr(m) == IF m.defValue = None THEN "" ELSE Val(m.defValue)

OptionMenuIsDefault(m) == m.var = OptionMenuDefStr(m)

\* getIndex(): the index of the current value, None if it is not an item
OptionMenuGetIndex(m) ==
    LET hits == {i \in 1..Len(m.items) : m.items[i] = m.var}
    IN  IF hits = {} THEN None
        ELSE Some((CHOOSE i \in hits : \A j \in hits : i <= j) - 1)

OptionMenuRestoreDefault(m) == [m EXCEPT !.var = OptionMenuDefStr(m)]

\* setDefault(newDefValue) with trackDefault: the shown value follows the
\* default when it was the default; the caller checks newDefValue is an item
OptionMenuSetDefault(m, newDefValue) ==
    LET showDefault == OptionMenuIsDefault(m)
        m1 == [m EXCEPT !.defValue = newDefValue]
    IN  IF showDefault THEN OptionMenuRestoreDefault(m1) ELSE m1

\* setItems(items, checkCurrent, checkDef)
OptionMenuSetItems(m, items, checkCurrent, checkDef) ==
    IF items = m.items THEN m
    ELSE LET m1 == [m EXCEPT !.items = items,
                             !.defValue = IF checkDef /\ @ # None /\ ~SeqHas(items, Val(@))
                                          THEN None ELSE @]
         IN  IF checkCurrent /\ ~SeqHas(items, m1.var)
             THEN OptionMenuRestoreDefault(m1) ELSE m1

\* Entry.setDefault(value) with trackDefault, the value already formatted
EntrySetDefault(e, defValueStr) ==
    LET restoreDef == e.var = e.defValueStr
    IN  [e EXCEPT !.defValueStr = defValueStr,
                  !.var = IF restoreDef THEN defValueStr ELSE @]

EntryIsDefault(e) == e.var = e.defValueStr

\* FloatEntry formats with "%.2f", IntEntry with "%d"; None is the empty field
FloatAsStr(o) == IF o = None THEN "" ELSE Fmt2f(Val(o))
IntAsStr(o) == IF o = None THEN "" ELSE FmtD(Val(o))

\* getNumOrNone() and getNum()
FloatGetNumOrNone(e) == IF e.var = "" THEN None ELSE Some(StrToFloat(e.var))
IntGetNumOrNone(e) == IF e.var = "" THEN None ELSE Some(StrToInt(e.var))
IntGetNum(e) == IF e.var = "" THEN 0 ELSE StrToInt(e.var)

----------------------------------------------------------------------------
(* The callbacks of ExposeWdg *)

\* enableButtons
EnableButtons(w) ==
    LET state0    == w.model.exposureState[1]
        isExposing == state0 # None /\ Val(state0) \in RunningExposureStates
        isRunning  == w.scriptRunner.state \in {"Running", "Paused"}
    IN  [w EXCEPT !.buttons = [exposeBtn |-> ~(isRunning \/ isExposing),
                               stopBtn   |-> isExposing,
                               cancelBtn |-> isRunning]]

\* _numReadsWdgCallback: set estReadTimeWdg to match
NumReadsWdgCallback(w) ==
    LET numReads    == IntGetNumOrNone(w.numReadsWdg)
        timePerRead == w.model.utrReadTime[1]
    IN  IF numReads = None THEN [w EXCEPT !.estReadTimeWdg = ""]
        ELSE IF timePerRead = None THEN [w EXCEPT !.estReadTimeWdg = " ? sec"]
        ELSE [w EXCEPT !.estReadTimeWdg =
                  " " \o Fmt0f(Val(numReads) * Val(timePerRead)) \o " sec"]

\* _ditherNameWdgCallback; an exception of a widget callback is reported by
\* the widget's callback runner and goes no further
DitherNameWdgCallback(w) ==
    LET name == w.ditherNameWdg.var
    IN  IF Len(name) < 2 THEN Raise(w, "IndexError")
        ELSE [w EXCEPT !.ditherPosWdg.gridded = (CharAt(name, 1) # " ")]

\* _ditherPositionCallback
DitherPositionCallback(w, keyVar) ==
    LET w1 == [w EXCEPT !.ditherPosWdg =
                   EntrySetDefault(@, FloatAsStr(keyVar.vals[1]))]
        ditherInd == IF keyVar.vals[2] = Some("A") THEN 0
                     ELSE IF keyVar.vals[2] = Some("B") THEN 1 ELSE 2
        w2 == [w1 EXCEPT !.ditherNameWdg =
                   OptionMenuSetDefault(@, Some(@.items[ditherInd + 1]))]
    IN  DitherNameWdgCallback(w2)

\* _ditherLimitsCallback
DitherLimitsCallback(w, keyVar) ==
    IF NoneIn(keyVar) THEN w
    ELSE [w EXCEPT !.ditherPosWdg.minValue = keyVar.vals[1],
                   !.ditherPosWdg.maxValue = keyVar.vals[2]]

\* _ditherNamedPositionsCallback; its last line calls itself with the
\* ditherPosition keyword variable
RECURSIVE DitherNamedPositionsCallback(_, _)
DitherNamedPositionsCallback(w, keyVar) ==
    IF NoneIn(keyVar) THEN w
    ELSE IF \E i \in 1..2 : KeyTypes[keyVar.key][i] # "Float"
    THEN Raise(w, "TypeError")   \* "%0.1f" of a string
    ELSE
    LET currIndex == OptionMenuGetIndex(w.ditherNameWdg)
        valList == << "A  " \o Fmt1f(Val(keyVar.vals[1])) \o " pixels",
                      "B  " \o Fmt1f(Val(keyVar.vals[2])) \o " pixels",
                      "Any" >>
        w1 == [w EXCEPT !.ditherNameWdg = OptionMenuSetItems(@, valList, FALSE, FALSE)]
    IN  IF currIndex = None THEN Raise(w1, "TypeError")   \* valList[None]
        ELSE LET w2 == DitherNameWdgCallback(
                           [w1 EXCEPT !.ditherNameWdg.var = valList[Val(currIndex) + 1]])
             IN  DitherNamedPositionsCallback(w2, KeyVar(w2, "ditherPosition"))

\* _exposureTypeListCallback
ExposureTypeListCallback(w, keyVar) ==
    IF keyVar.vals[1] = None THEN w
    ELSE [w EXCEPT !.expTypeWdg =
              OptionMenuSetItems(@, [i \in 1..Len(keyVar.vals) |-> Val(keyVar.vals[i])],
                                 TRUE, FALSE)]

\* ExposureStateCallback with enableButtons called before the test of the
\* first element instead of after it
ExposureStateCallback_EnableFirst(w, keyVar) ==
    IF keyVar.vals[1] = None THEN EnableButtons(w)
    ELSE IF keyVar.vals[2] # None /\ ~SeqHas(w.expTypeWdg.items, Val(keyVar.vals[2]))
    THEN Raise(w, "ValueError")
    ELSE
    LET w1 == [w EXCEPT !.expTypeWdg = OptionMenuSetDefault(@, keyVar.vals[2])]
        w2 == [w1 EXCEPT !.numReadsWdg = EntrySetDefault(@, IntAsStr(keyVar.vals[3]))]
    IN  EnableButtons(NumReadsWdgCallback(w2))

\* ExposureStateCallback without its last line, the call of enableButtons
ExposureStateCallback_NoEnable(w, keyVar) ==
    IF keyVar.vals[1] = None THEN w
    ELSE IF keyVar.vals[2] # None /\ ~SeqHas(w.expTypeWdg.items, Val(keyVar.vals[2]))
    THEN Raise(w, "ValueError")
    ELSE
    LET w1 == [w EXCEPT !.expTypeWdg = OptionMenuSetDefault(@, keyVar.vals[2])]
        w2 == [w1 EXCEPT !.numReadsWdg = EntrySetDefault(@, IntAsStr(keyVar.vals[3]))]
    IN  NumReadsWdgCallback(w2)

\* _exposureStateCallback; OptionMenu.setDefault refuses a value that is no item
ExposureStateCallback(w, keyVar) ==
    IF keyVar.vals[1] = None THEN w
    ELSE IF keyVar.vals[2] # None /\ ~SeqHas(w.expTypeWdg.items, Val(keyVar.vals[2]))
    THEN Raise(w, "ValueError")
    ELSE
    LET w1 == [w EXCEPT !.expTypeWdg = OptionMenuSetDefault(@, keyVar.vals[2])]
        w2 == [w1 EXCEPT !.numReadsWdg = EntrySetDefault(@, IntAsStr(keyVar.vals[3]))]
    IN  EnableButtons(NumReadsWdgCallback(w2))

----------------------------------------------------------------------------
(* The command strings *)

\* getDitherCmd: the dither command, or None if the current value is default
GetDitherCmd(w) ==
    LET name == w.ditherNameWdg.var
        pos  == FloatGetNumOrNone(w.ditherPosWdg)
    IN  IF Len(name) < 2 THEN [err |-> "IndexError", cmd |-> None]
        ELSE IF CharAt(name, 1) = " "
        THEN IF OptionMenuIsDefault(w.ditherNameWdg) THEN [err |-> "", cmd |-> None]
             ELSE [err |-> "", cmd |-> Some("dither namedpos=" \o CharAt(name, 0))]
        ELSE IF EntryIsDefault(w.ditherPosWdg) THEN [err |-> "", cmd |-> None]
        ELSE IF pos = None THEN [err |-> "", cmd |-> None]
        ELSE [err |-> "", cmd |-> Some("dither pixelpos=" \o Fmt2f(Val(pos)))]

\* GetExposureCmd with the two parts of the command joined by a comma
GetExposureCmd_Comma(w) ==
    LET numReads == IntGetNum(w.numReadsWdg)
        expType  == w.expTypeWdg.var
    IN  IF numReads = 0 THEN [err |-> "RuntimeError", cmd |-> None]
        ELSE [err |-> "", cmd |-> Some("expose nreads=" \o FmtD(numReads)
                                       \o ", object=" \o expType)]

\* GetExposureCmd without the test of the read count
GetExposureCmd_NoCheck(w) ==
    [err |-> "",
     cmd |-> Some("expose nreads=" \o FmtD(IntGetNum(w.numReadsWdg))
                  \o "; object=" \o w.expTypeWdg.var)]

\* getExposureCmd
GetExposureCmd(w) ==
    LET numReads == IntGetNum(w.numReadsWdg)
        expType  == w.expTypeWdg.var
    IN  IF numReads = 0 THEN [err |-> "RuntimeError", cmd |-> None]
        ELSE [err |-> "", cmd |-> Some("expose nreads=" \o FmtD(numReads)
                                       \o "; object=" \o expType)]

----------------------------------------------------------------------------
(* The script runner and the exposure script *)

IsExecuting(w) == w.scriptRunner.state \in {"Running", "Paused"}

\* a command handed to the dispatcher for actor apogee
SendCmd(w, cmdStr, via) ==
    [w EXCEPT !.sent = Append(@, [actor |-> "apogee", cmdStr |-> cmdStr,
                                  via |-> via, state |-> "running"])]

\* a state change of the script runner calls stateFunc = enableButtons
SetState(w, newState) ==
    EnableButtons([w EXCEPT !.scriptRunner.state = newState,
                            !.scriptRunner.pc = IF newState = "Running" THEN @ ELSE "idle"])

\* ExposureScriptRunBegin without the wait: both commands are started at once
ExposureScriptRunBegin_NoWait(w) ==
    LET d  == GetDitherCmd(w)
        e  == GetExposureCmd(w)
        w1 == [w EXCEPT !.scriptRunner.ditherCmd = d.cmd]
        w2 == [w1 EXCEPT !.scriptRunner.exposureCmd = e.cmd]
    IN  IF d.err # "" THEN Raise(SetState(w, "Failed"), d.err)
        ELSE IF e.err # "" THEN Raise(SetState(w1, "Failed"), e.err)
        ELSE IF d.cmd # None /\ Val(d.cmd) # ""
        THEN [SendCmd(SendCmd(w2, Val(d.cmd), "scriptRunner"), Val(e.cmd), "scriptRunner")
                  EXCEPT !.scriptRunner.pc = "waitExpose"]
        ELSE [SendCmd(w2, Val(e.cmd), "scriptRunner") EXCEPT !.scriptRunner.pc = "waitExpose"]

\* ExposureScriptRunBegin with getExposureCmd called only once the dither
\* command has been started
ExposureScriptRunBegin_DitherFirst(w) ==
    LET d  == GetDitherCmd(w)
        w1 == [w EXCEPT !.scriptRunner.ditherCmd = d.cmd]
        hasDither == d.cmd # None /\ Val(d.cmd) # ""
        w2 == IF hasDither THEN SendCmd(w1, Val(d.cmd), "scriptRunner") ELSE w1
        e  == GetExposureCmd(w)
        w3 == [w2 EXCEPT !.scriptRunner.exposureCmd = e.cmd]
    IN  IF d.err # "" THEN Raise(SetState(w, "Failed"), d.err)
        ELSE IF e.err # "" THEN Raise(SetState(w2, "Failed"), e.err)
        ELSE IF hasDither THEN [w3 EXCEPT !.scriptRunner.pc = "waitDither"]
        ELSE [SendCmd(w3, Val(e.cmd), "scriptRunner") EXCEPT !.scriptRunner.pc = "waitExpose"]

\* _exposureScriptRun up to its first yield; an exception fails the script
ExposureScriptRunBegin(w) ==
    LET d  == GetDitherCmd(w)
        e  == GetExposureCmd(w)
        w1 == [w EXCEPT !.scriptRunner.ditherCmd = d.cmd]
        w2 == [w1 EXCEPT !.scriptRunner.exposureCmd = e.cmd]
    IN  IF d.err # "" THEN Raise(SetState(w, "Failed"), d.err)
        ELSE IF e.err # "" THEN Raise(SetState(w1, "Failed"), e.err)
        ELSE IF d.cmd # None /\ Val(d.cmd) # ""
        THEN [SendCmd(w2, Val(d.cmd), "scriptRunner") EXCEPT !.scriptRunner.pc = "waitDither"]
        ELSE [SendCmd(w2, Val(e.cmd), "scriptRunner") EXCEPT !.scriptRunner.pc = "waitExpose"]

\* ExposureScriptRunResume with getExposureCmd called after the dither
\* command is done instead of before it is sent
ExposureScriptRunResume_Late(w) ==
    IF w.scriptRunner.pc = "waitDither"
    THEN IF GetExposureCmd(w).err # "" THEN Raise(SetState(w, "Failed"), GetExposureCmd(w).err)
         ELSE [SendCmd(w, Val(GetExposureCmd(w).cmd), "scriptRunner")
                   EXCEPT !.scriptRunner.pc = "waitExpose"]
    ELSE SetState(w, "Done")

\* _exposureScriptRun from the yield it waits at, once that command is done
ExposureScriptRunResume(w) ==
    IF w.scriptRunner.pc = "waitDither"
    THEN [SendCmd(w, Val(w.scriptRunner.exposureCmd), "scriptRunner")
              EXCEPT !.scriptRunner.pc = "waitExpose"]
    ELSE SetState(w, "Done")

\* scriptRunner.start; base is the number of commands sent before this run
ScriptRunnerStart(w) ==
    IF IsExecuting(w) THEN Raise(w, "RuntimeError")
    ELSE ExposureScriptRunBegin(
             SetState([w EXCEPT !.scriptRunner.ditherCmd = None,
                                !.scriptRunner.exposureCmd = None,
                                !.scriptRunner.base = Len(w.sent)], "Running"))

\* ScriptRunnerCancel that also stops the exposure at the actor
ScriptRunnerCancel_AlsoStop(w) ==
    IF ~IsExecuting(w) THEN w
    ELSE SendCmd(SetState([w EXCEPT !.sent = [i \in 1..Len(@) |->
                              IF @[i].via = "scriptRunner" /\ @[i].state = "running"
                              THEN [@[i] EXCEPT !.state = "cancelled"] ELSE @[i]]],
                          "Cancelled"),
                 "expose stop", "scriptRunner")

\* scriptRunner.cancel: the command being waited for is aborted
ScriptRunnerCancel(w) ==
    IF ~IsExecuting(w) THEN w
    ELSE SetState([w EXCEPT !.sent = [i \in 1..Len(@) |->
                     IF @[i].via = "scriptRunner" /\ @[i].state = "running"
                     THEN [@[i] EXCEPT !.state = "cancelled"] ELSE @[i]]],
                  "Cancelled")

\* stopExposure
StopExposure(w) == SendCmd(w, "expose stop", "statusBar")

\* the dispatcher reports command i of the script done or failed
CmdFinished(w, i, how) ==
    LET w1 == [w EXCEPT !.sent[i].state = how]
    IN  IF how = "done" THEN ExposureScriptRunResume(w1)
        ELSE SetState(w1, "Failed")

----------------------------------------------------------------------------
(* runTUI (TUI/Main.py).  TUI.Actorkeys, TUI.Models, TUI.TUIPaths and the
   loaders are called, not defined, by Main.py: a call returns, and the
   calls whose outcome the routine branches on take each outcome. *)

\* sys.path when runTUI is entered, without and with a $PYTHONPATH
StartPaths == {<<"lib">>, <<"pythonpath", "lib">>}

\* what getSTUIPath() returns
STUIPath == "stui"

\* what TUI.TUIPaths.getAddPaths() returns: the additions directories found
AddPathLists == {<<>>, <<"shared">>, <<"user">>, <<"shared", "user">>}

\* the exceptions refreshActorkeys() fails with, all derived from Exception
DownloadErrors == {"IOError", "OSError", "RuntimeError"}

TuiStart(path) ==
    [pc |-> "Tk", tkRoot |-> "none", console |-> "unknown",
     startPath |-> path, sysPath |-> path, stdout |-> <<>>,
     actorkeys |-> "unchecked", raised |-> "",
     tuiModel |-> FALSE, background |-> FALSE, addPathList |-> None,
     stdModules |-> FALSE, windows |-> <<>>, scripts |-> FALSE,
     menuBar |-> FALSE, reactor |-> FALSE]

Write(t, text) == [t EXCEPT !.stdout = Append(@, text)]

\* sys.path.insert(0, getSTUIPath()), the else clause of the try statement
SysPathInsert(t) ==
    [t EXCEPT !.sysPath = <<STUIPath>> \o @, !.pc = "getModel"]

\* refreshActorkeys() raised e and no clause handles it: runTUI ends with e
DownloadFailed_Uncaught(t, e) ==
    [t EXCEPT !.actorkeys = "failed", !.raised = e, !.pc = "aborted"]

\* refreshActorkeys() raised e: the except clause reports it and the else
\* clause is skipped
DownloadFailed(t, e) ==
    [Write(t, "Failed downloading actorkeys " \o e)
        EXCEPT !.actorkeys = "failed", !.pc = "getModel"]

\* the rest of the variables is the Expose window's, which runTUI does not touch
TuiStep(t) ==
    /\ tui' = t
    /\ UNCHANGED <<model, ditherNameWdg, ditherPosWdg, expTypeWdg, numReadsWdg,
                   estReadTimeWdg, buttons, scriptRunner, sent, err>>

\* tkRoot = Tkinter.Tk()
TkRoot ==
    /\ tui.pc = "Tk"
    /\ TuiStep([tui EXCEPT !.tkRoot = "normal", !.pc = "withdraw"])

\* tkRoot.withdraw()
Withdraw ==
    /\ tui.pc = "withdraw"
    /\ TuiStep([tui EXCEPT !.tkRoot = "withdrawn", !.pc = "console"])

\* tkRoot.tk.call("console", "hide"); the TclError of a missing console is passed
ConsoleHide ==
    /\ tui.pc = "console"
    /\ \E hasConsole \in BOOLEAN :
           TuiStep([tui EXCEPT !.console = IF hasConsole THEN "hidden" ELSE "absent",
                               !.pc = "exists"])

\* actorkeys_path = getActorkeysPath(); if not os.path.exists(actorkeys_path): write
ActorkeysExists ==
    /\ tui.pc = "exists"
    /\ \E exists \in BOOLEAN :
           TuiStep(IF exists
                   THEN [tui EXCEPT !.actorkeys = "present", !.pc = "insert"]
                   ELSE [Write(tui, "Downloading actorkeys ... ")
                            EXCEPT !.actorkeys = "missing", !.pc = "refresh"])

\* refreshActorkeys() returns
RefreshActorkeysDone ==
    /\ tui.pc = "refresh"
    /\ TuiStep([tui EXCEPT !.actorkeys = "downloaded", !.pc = "insert"])

\* refreshActorkeys() raises
RefreshActorkeysFailed ==
    /\ tui.pc = "refresh"
    /\ \E e \in DownloadErrors : TuiStep(DownloadFailed(tui, e))

\* the else clause
ActorkeysElse ==
    /\ tui.pc = "insert"
    /\ TuiStep(SysPathInsert(tui))

\* tuiModel = TUI.Models.getModel("tui")
GetModel ==
    /\ tui.pc = "getModel"
    /\ TuiStep([tui EXCEPT !.tuiModel = TRUE, !.pc = "background"])

\* backgroundHandler = TUI.BackgroundTasks.BackgroundKwds()
BackgroundKwds ==
    /\ tui.pc = "background"
    /\ TuiStep([tui EXCEPT !.background = TRUE, !.pc = "addPaths"])

\* addPathList = TUI.TUIPaths.getAddPaths(); sys.path += addPathList
GetAddPaths ==
    /\ tui.pc = "addPaths"
    /\ \E a \in AddPathLists :
           TuiStep([tui EXCEPT !.addPathList = Some(a), !.sysPath = @ \o a,
                               !.pc = "loadAll"])

\* TUI.LoadStdModules.loadAll()
LoadAll ==
    /\ tui.pc = "loadAll"
    /\ TuiStep([tui EXCEPT !.stdModules = TRUE, !.pc = "loadWindows"])

\* for winPath in addPathList: loadWindows(path = winPath, ...), one round
LoadWindows ==
    /\ tui.pc = "loadWindows"
    /\ TuiStep(IF Len(tui.windows) < Len(Val(tui.addPathList))
               THEN [tui EXCEPT !.windows =
                         Append(@, Val(tui.addPathList)[Len(@) + 1])]
               ELSE [tui EXCEPT !.pc = "scripts"])

\* TUI.Base.ScriptLoader.reopenScriptWindows()
ReopenScriptWindows ==
    /\ tui.pc = "scripts"
    /\ TuiStep([tui EXCEPT !.scripts = TRUE, !.pc = "menuBar"])

\* TUI.MenuBar.MenuBar()
MenuBar ==
    /\ tui.pc = "menuBar"
    /\ TuiStep([tui EXCEPT !.menuBar = TRUE, !.pc = "ready"])

\* tuiModel.logMsg("... ready to connect"); sys.stdout.write("... running on ...")
Ready ==
    /\ tui.pc = "ready"
    /\ TuiStep([Write(tui, "running") EXCEPT !.pc = "run"])

\* tuiModel.reactor.run()
ReactorRun ==
    /\ tui.pc = "run"
    /\ TuiStep([tui EXCEPT !.reactor = TRUE, !.pc = "reactor"])

----------------------------------------------------------------------------
(* The state after ExposeWdg.__init__: addCallback calls each callback with
   the keyword variable as it is before any data arrives *)

Constructed ==
    [model |-> [ditherPosition |-> <<None, None>>, ditherLimits |-> <<None, None>>,
                ditherNamedPositions |-> <<None, None>>, exposureTypeList |-> <<None>>,
                exposureState |-> <<None, None, None>>, utrReadTime |-> <<None>>],
     ditherNameWdg |-> [items |-> <<"A", "B", "Any">>, var |-> "", defValue |-> None],
     ditherPosWdg |-> [var |-> "", defValueStr |-> "", minValue |-> None,
                       maxValue |-> None, gridded |-> TRUE],
     expTypeWdg |-> [items |-> <<"Object", "Dark">>, var |-> "Object",
                     defValue |-> Some("Object")],
     numReadsWdg |-> [var |-> FmtD(NumReadsDef), defValueStr |-> FmtD(NumReadsDef)],
     estReadTimeWdg |-> "",
     buttons |-> [exposeBtn |-> TRUE, stopBtn |-> TRUE, cancelBtn |-> TRUE],
     scriptRunner |-> [state |-> "Ready", pc |-> "idle", ditherCmd |-> None,
                       exposureCmd |-> None, base |-> 0],
     sent |-> <<>>,
     err |-> ""]

AfterInit ==
    LET w1 == DitherPositionCallback(Constructed, KeyVar(Constructed, "ditherPosition"))
        w2 == DitherLimitsCallback(w1, KeyVar(w1, "ditherLimits"))
        w3 == DitherNamedPositionsCallback(w2, KeyVar(w2, "ditherNamedPositions"))
        w4 == ExposureTypeListCallback(w3, KeyVar(w3, "exposureTypeList"))
        w5 == ExposureStateCallback(w4, KeyVar(w4, "exposureState"))
        w6 == NumReadsWdgCallback(w5)
    IN  EnableButtons(w6)

Init ==
    /\ model = AfterInit.model
    /\ ditherNameWdg = AfterInit.ditherNameWdg
    /\ ditherPosWdg = AfterInit.ditherPosWdg
    /\ expTypeWdg = AfterInit.expTypeWdg
    /\ numReadsWdg = AfterInit.numReadsWdg
    /\ estReadTimeWdg = AfterInit.estReadTimeWdg
    /\ buttons = AfterInit.buttons
    /\ scriptRunner = AfterInit.scriptRunner
    /\ sent = AfterInit.sent
    /\ err = ""
    /\ tui = TuiStart(<<"lib">>)

\* the state when runTUI is entered; the Expose window's variables are held
\* at their values of Init
InitStartup ==
    /\ model = AfterInit.model
    /\ ditherNameWdg = AfterInit.ditherNameWdg
    /\ ditherPosWdg = AfterInit.ditherPosWdg
    /\ expTypeWdg = AfterInit.expTypeWdg
    /\ numReadsWdg = AfterInit.numReadsWdg
    /\ estReadTimeWdg = AfterInit.estReadTimeWdg
    /\ buttons = AfterInit.buttons
    /\ scriptRunner = AfterInit.scriptRunner
    /\ sent = AfterInit.sent
    /\ err = ""
    /\ \E path \in StartPaths : tui = TuiStart(path)

----------------------------------------------------------------------------
(* Events: keyword updates, user input, button presses, command replies *)

Updated(key, v) == [Cur EXCEPT !.model[key] = v]

KwDitherPosition ==
    \E v \in KvDitherPosition :
        Commit(DitherPositionCallback(Updated("ditherPosition", v),
                                      [key |-> "ditherPosition", vals |-> v]))

KwDitherLimits ==
    \E v \in KvDitherLimits :
        Commit(DitherLimitsCallback(Updated("ditherLimits", v),
                                    [key |-> "ditherLimits", vals |-> v]))

KwDitherNamedPositions ==
    \E v \in KvDitherNamedPositions :
        Commit(DitherNamedPositionsCallback(Updated("ditherNamedPositions", v),
                                            [key |-> "ditherNamedPositions", vals |-> v]))

KwExposureTypeList ==
    \E v \in KvExposureTypeList :
        Commit(ExposureTypeListCallback(Updated("exposureTypeList", v),
                                        [key |-> "exposureTypeList", vals |-> v]))

KwExposureState ==
    \E v \in KvExposureState :
        Commit(ExposureStateCallback(Updated("exposureState", v),
                                     [key |-> "exposureState", vals |-> v]))

KwUtrReadTime ==
    \E v \in KvUtrReadTime :
        Commit(NumReadsWdgCallback(Updated("utrReadTime", v)))

UserSelectDitherName ==
    \E i \in 1..Len(ditherNameWdg.items) :
        Commit(DitherNameWdgCallback(
                   [Cur EXCEPT !.ditherNameWdg.var = ditherNameWdg.items[i]]))

InRange(e, o) ==
    IF o = None THEN TRUE
    ELSE /\ e.minValue # None => Val(o) >= Val(e.minValue)
         /\ e.maxValue # None => Val(o) <= Val(e.maxValue)

UserEnterDitherPos ==
    \E o \in UserDitherPos :
        /\ ditherPosWdg.gridded
        /\ InRange(ditherPosWdg, o)
        /\ Commit([Cur EXCEPT !.ditherPosWdg.var = FloatAsStr(o)])

UserSelectExpType ==
    \E i \in 1..Len(expTypeWdg.items) :
        Commit([Cur EXCEPT !.expTypeWdg.var = expTypeWdg.items[i]])

UserEnterNumReads ==
    \E o \in UserNumReads :
        /\ IF o = None THEN TRUE ELSE Val(o) >= NumReadsMin
        /\ Commit(NumReadsWdgCallback([Cur EXCEPT !.numReadsWdg.var = IntAsStr(o)]))

PressExpose ==
    /\ buttons.exposeBtn
    /\ Len(sent) < MaxSent
    /\ Commit(ScriptRunnerStart(Cur))

PressStop ==
    /\ buttons.stopBtn
    /\ Len(sent) < MaxSent
    /\ Commit(StopExposure(Cur))

PressCancel ==
    /\ buttons.cancelBtn
    /\ Commit(ScriptRunnerCancel(Cur))

\* the reply to a command of the script; the reply to a status bar command
\* changes the status bar's text only, which is not part of the state
CmdDone ==
    \E i \in 1..Len(sent) :
        /\ sent[i].via = "scriptRunner"
        /\ sent[i].state = "running"
        /\ Commit(CmdFinished(Cur, i, "done"))

CmdFailed ==
    \E i \in 1..Len(sent) :
        /\ sent[i].via = "scriptRunner"
        /\ sent[i].state = "running"
        /\ Commit(CmdFinished(Cur, i, "failed"))

Next ==
    \/ KwDitherPosition
    \/ KwDitherLimits
    \/ KwDitherNamedPositions
    \/ KwExposureTypeList
    \/ KwExposureState
    \/ KwUtrReadTime
    \/ UserSelectDitherName
    \/ UserEnterDitherPos
    \/ UserSelectExpType
    \/ UserEnterNumReads
    \/ PressExpose
    \/ PressStop
    \/ PressCancel
    \/ CmdDone
    \/ CmdFailed
    \/ TkRoot
    \/ Withdraw
    \/ ConsoleHide
    \/ ActorkeysExists
    \/ RefreshActorkeysDone
    \/ RefreshActorkeysFailed
    \/ ActorkeysElse
    \/ GetModel
    \/ BackgroundKwds
    \/ GetAddPaths
    \/ LoadAll
    \/ LoadWindows
    \/ ReopenScriptWindows
    \/ MenuBar
    \/ Ready
    \/ ReactorRun

Spec == Init /\ [][Next]_vars

----------------------------------------------------------------------------
(* Specifications over parts of the events.  The widget state, the log of
   commands and the keyword variables multiply; each claim is checked under
   the events it is about, the other events not taken. *)

\* the widgets alone: every keyword update and every user input
NextWidgets ==
    \/ KwDitherPosition
    \/ KwDitherLimits
    \/ KwDitherNamedPositions
    \/ KwExposureTypeList
    \/ KwExposureState
    \/ KwUtrReadTime
    \/ UserSelectDitherName
    \/ UserEnterDitherPos
    \/ UserSelectExpType
    \/ UserEnterNumReads

SpecWidgets == Init /\ [][NextWidgets]_vars

\* the script runner and the buttons, with the inputs that decide the two
\* commands and the button states
NextScript ==
    \/ PressExpose
    \/ PressStop
    \/ PressCancel
    \/ CmdDone
    \/ CmdFailed
    \/ KwExposureState
    \/ UserSelectDitherName
    \/ UserEnterDitherPos
    \/ UserEnterNumReads

SpecScript == Init /\ [][NextScript]_vars

\* a script run with edits and keyword updates arriving while it waits
NextFlight ==
    \/ PressExpose
    \/ CmdDone
    \/ KwDitherPosition
    \/ KwExposureTypeList
    \/ KwExposureState
    \/ UserEnterDitherPos
    \/ UserSelectExpType

SpecFlight == Init /\ [][NextFlight]_vars

\* runTUI alone; it is straight-line code, so a step that can be taken is taken
NextStartup ==
    \/ TkRoot
    \/ Withdraw
    \/ ConsoleHide
    \/ ActorkeysExists
    \/ RefreshActorkeysDone
    \/ RefreshActorkeysFailed
    \/ ActorkeysElse
    \/ GetModel
    \/ BackgroundKwds
    \/ GetAddPaths
    \/ LoadAll
    \/ LoadWindows
    \/ ReopenScriptWindows
    \/ MenuBar
    \/ Ready
    \/ ReactorRun

SpecStartup == InitStartup /\ [][NextStartup]_vars /\ WF_vars(NextStartup)

----------------------------------------------------------------------------
(* What the current script run has done *)

IsScriptCmd(c) == c.via = "scriptRunner"

\* the commands the current (or last) run of the script has sent, in order
RunCmds == SelectSeq(SubSeq(sent, scriptRunner.base + 1, Len(sent)), IsScriptCmd)

\* getDitherCmd returned a non-empty command in the current run
DitherReturned == scriptRunner.ditherCmd # None /\ Val(scriptRunner.ditherCmd) # ""

\* getExposureCmd returned in the current run
ExposureReturned == scriptRunner.exposureCmd # None

IsDitherCmdAt(i) == DitherReturned /\ RunCmds[i].cmdStr = Val(scriptRunner.ditherCmd)
IsExposureCmdAt(i) == ExposureReturned /\ RunCmds[i].cmdStr = Val(scriptRunner.exposureCmd)

DitherSent == \E i \in 1..Len(RunCmds) : IsDitherCmdAt(i)

\* the dither command precedes the exposure command and is done before it is sent
DitherThenExposure ==
    \A i \in 1..Len(RunCmds) :
        IsExposureCmdAt(i) /\ DitherReturned =>
            \E j \in 1..(i - 1) : IsDitherCmdAt(j) /\ RunCmds[j].state = "done"

OneOutstanding ==
    Cardinality({i \in 1..Len(sent) : IsScriptCmd(sent[i]) /\ sent[i].state = "running"}) <= 1

----------------------------------------------------------------------------
(* C1, as stated: in every run of the exposure script the dither command is
   sent if and only if getDitherCmd returned a non-empty command; it is sent
   before the exposure command, which is not sent until the dither command is
   done; at most one command of the script is outstanding. *)
C1_AsStated ==
    scriptRunner.state # "Ready" =>
        /\ DitherSent <=> DitherReturned
        /\ DitherThenExposure
        /\ OneOutstanding

(* C1, amended: the dither command is sent if and only if getDitherCmd
   returned a non-empty command and getExposureCmd then returned without
   raising; the order, the wait for completion and the single outstanding
   command are as stated. *)
C1_DitherThenExposure ==
    scriptRunner.state # "Ready" =>
        /\ DitherSent <=> (DitherReturned /\ ExposureReturned)
        /\ DitherThenExposure
        /\ OneOutstanding

\* a run that sent the dither command, saw it done and then sent the exposure command
C1_Witness ==
    /\ Len(RunCmds) = 2
    /\ IsDitherCmdAt(1) /\ RunCmds[1].state = "done"
    /\ IsExposureCmdAt(2)

----------------------------------------------------------------------------
\* no read count is configured: numReadsWdg is empty (getNum gives 0)
NoReadCount == IntGetNum(numReadsWdg) = 0

IsExposeNreads(c) == Len(c.cmdStr) >= 14 /\ SubSeq(c.cmdStr, 1, 14) = "expose nreads="

(* C2: with no read count configured getExposureCmd raises (RuntimeError) and
   returns no command; pressing Expose then sends no command at all, so no
   "expose nreads=..." command, and the script fails with that error (with the
   IndexError of getDitherCmd when that is raised first). *)
C2_NoReadCountRaises ==
    /\ [](NoReadCount => GetExposureCmd(Cur) = [err |-> "RuntimeError", cmd |-> None])
    /\ [][PressExpose /\ NoReadCount =>
             /\ sent' = sent
             /\ scriptRunner'.state = "Failed"
             /\ err' = (IF GetDitherCmd(Cur).err # "" THEN GetDitherCmd(Cur).err
                        ELSE "RuntimeError")]_vars
    /\ [](\A i \in 1..Len(sent) : IsExposeNreads(sent[i]) =>
             ~(SubSeq(sent[i].cmdStr, 15, 15) = "0"))

\* Expose was pressed with the read count empty: the script failed with the
\* error of getExposureCmd and nothing was sent
C2_Witness ==
    /\ scriptRunner.state = "Failed"
    /\ err = "RuntimeError"
    /\ NoReadCount
    /\ sent = <<>>

(* C9: a run of the script in which getExposureCmd did not return (no read
   count configured) has sent no command: the dither command is not sent
   either, even when getDitherCmd returned one. *)
C9_ErrorBeforeAnyCommand ==
    (scriptRunner.state # "Ready" /\ ~ExposureReturned) =>
        /\ RunCmds = <<>>
        /\ scriptRunner.state = "Failed"

\* a failed run with a non-default dither: getDitherCmd returned a command,
\* getExposureCmd raised, nothing was sent
C9_Witness ==
    /\ scriptRunner.state = "Failed"
    /\ err = "RuntimeError"
    /\ DitherReturned
    /\ ~ExposureReturned
    /\ sent = <<>>

----------------------------------------------------------------------------
\* exposureState[0] is one of the running states
IsExposing ==
    /\ model.exposureState[1] # None
    /\ Val(model.exposureState[1]) \in RunningExposureStates

(* C6, as stated: after any sequence of exposureState updates and script
   runner state changes, Expose is enabled exactly when no script is executing
   and exposureState[0] is not a running state, Stop exactly when
   exposureState[0] is a running state, Cancel exactly when the script is
   executing. *)
C6_AsStated ==
    /\ buttons.exposeBtn <=> ~(IsExecuting(Cur) \/ IsExposing)
    /\ buttons.stopBtn <=> IsExposing
    /\ buttons.cancelBtn <=> IsExecuting(Cur)

(* C6, amended: Cancel is enabled exactly when the script is executing and
   Expose is never enabled while it is; whenever exposureState[0] is defined,
   Expose and Stop are as stated.  An update whose first element is undefined
   is skipped without a call of enableButtons, so while exposureState[0] is
   undefined Stop and Expose keep the values of the last call. *)
C6_ButtonsReflectState ==
    /\ buttons.cancelBtn <=> IsExecuting(Cur)
    /\ buttons.exposeBtn => ~IsExecuting(Cur)
    /\ model.exposureState[1] # None =>
           /\ buttons.exposeBtn <=> ~(IsExecuting(Cur) \/ IsExposing)
           /\ buttons.stopBtn <=> IsExposing

\* exposureState went from a running state to undefined: Stop is still enabled
C6_Witness ==
    /\ model.exposureState[1] = None
    /\ buttons.stopBtn
    /\ ~buttons.exposeBtn
    /\ ~IsExecuting(Cur)

----------------------------------------------------------------------------
CmdTexts(s) == [i \in 1..Len(s) |-> [actor |-> s[i].actor, cmdStr |-> s[i].cmdStr,
                                     via |-> s[i].via]]

(* C8: pressing the cancel (X) button sends no command (the log of commands
   grows by nothing, in particular by no "expose stop") and changes no entry
   or menu; pressing Stop sends exactly one "expose stop" to actor apogee
   through the status bar and leaves the script runner and the commands of
   the script as they are. *)
C8_CancelAndStopFrames ==
    /\ [][PressCancel =>
             /\ CmdTexts(sent') = CmdTexts(sent)
             /\ UNCHANGED <<ditherNameWdg, ditherPosWdg, expTypeWdg, numReadsWdg,
                            estReadTimeWdg, model>>]_vars
    /\ [][PressStop =>
             /\ sent' = Append(sent, [actor |-> "apogee", cmdStr |-> "expose stop",
                                      via |-> "statusBar", state |-> "running"])
             /\ UNCHANGED <<scriptRunner, buttons, ditherNameWdg, ditherPosWdg,
                            expTypeWdg, numReadsWdg, estReadTimeWdg, model>>]_vars

\* Stop was pressed while the script was executing, then the script was
\* cancelled: one "expose stop" from the status bar, the script's command aborted
C8_Witness ==
    /\ scriptRunner.state = "Cancelled"
    /\ \E i \in 1..Len(sent) : sent[i].cmdStr = "expose stop" /\ sent[i].via = "statusBar"
                               /\ i > scriptRunner.base + 1
    /\ \E i \in 1..Len(sent) : IsScriptCmd(sent[i]) /\ sent[i].state = "cancelled"
    /\ Cardinality({i \in 1..Len(sent) : sent[i].cmdStr = "expose stop"}) = 1

----------------------------------------------------------------------------
(* C10: both command strings of a run are computed from the widgets as they
   are when the script starts; while the script waits for the dither command
   no event changes them, and the exposure command sent when the dither
   command is done is the one computed at the start. *)
C10_CommandsFixedAtStart ==
    /\ [][PressExpose /\ scriptRunner'.state = "Running" =>
             /\ scriptRunner'.ditherCmd = GetDitherCmd(Cur).cmd
             /\ scriptRunner'.exposureCmd = GetExposureCmd(Cur).cmd]_vars
    /\ [][scriptRunner.pc = "waitDither" /\ scriptRunner'.pc = "waitDither" =>
             /\ scriptRunner'.ditherCmd = scriptRunner.ditherCmd
             /\ scriptRunner'.exposureCmd = scriptRunner.exposureCmd]_vars
    /\ [][scriptRunner.pc = "waitDither" /\ scriptRunner'.pc = "waitExpose" =>
             /\ Len(sent') = Len(sent) + 1
             /\ sent'[Len(sent')].cmdStr = Val(scriptRunner.exposureCmd)]_vars

\* the dither command is in flight and the widgets now give another exposure
\* command than the one the run holds
C10_Witness ==
    /\ scriptRunner.pc = "waitDither"
    /\ Len(RunCmds) = 1 /\ RunCmds[1].state = "running"
    /\ GetExposureCmd(Cur).err = ""
    /\ GetExposureCmd(Cur).cmd # scriptRunner.exposureCmd

----------------------------------------------------------------------------
(* Keyword updates whose first element is undefined *)

\* the handling of an update of the keyword to a value with no first element
NoneDitherPosition ==
    \E v \in KvDitherPosition :
        /\ v[1] = None
        /\ Commit(DitherPositionCallback(Updated("ditherPosition", v),
                                         [key |-> "ditherPosition", vals |-> v]))

NoneDitherLimits ==
    \E v \in KvDitherLimits :
        /\ v[1] = None
        /\ Commit(DitherLimitsCallback(Updated("ditherLimits", v),
                                       [key |-> "ditherLimits", vals |-> v]))

NoneDitherNamedPositions ==
    \E v \in KvDitherNamedPositions :
        /\ v[1] = None
        /\ Commit(DitherNamedPositionsCallback(Updated("ditherNamedPositions", v),
                                               [key |-> "ditherNamedPositions", vals |-> v]))

NoneExposureTypeList ==
    \E v \in KvExposureTypeList :
        /\ v[1] = None
        /\ Commit(ExposureTypeListCallback(Updated("exposureTypeList", v),
                                           [key |-> "exposureTypeList", vals |-> v]))

NoneExposureState ==
    \E v \in KvExposureState :
        /\ v[1] = None
        /\ Commit(ExposureStateCallback(Updated("exposureState", v),
                                        [key |-> "exposureState", vals |-> v]))

NoneUtrReadTime ==
    \E v \in KvUtrReadTime :
        /\ v[1] = None
        /\ Commit(NumReadsWdgCallback(Updated("utrReadTime", v)))

\* no error, and every widget value, default, item list, range, label and
\* button enable state as before
Ignored ==
    /\ err' = ""
    /\ UNCHANGED <<ditherNameWdg, ditherPosWdg, expTypeWdg, numReadsWdg,
                   estReadTimeWdg, buttons>>

(* C3 as stated: an update with an undefined first element is ignored by each
   of the six keyword callbacks. *)
C3_AsStated ==
    [][(\/ NoneDitherPosition \/ NoneDitherLimits \/ NoneDitherNamedPositions
        \/ NoneExposureTypeList \/ NoneExposureState \/ NoneUtrReadTime)
       => Ignored]_vars

(* C3: an update with an undefined first element is ignored by the callbacks
   of ditherLimits, ditherNamedPositions, exposureTypeList and exposureState:
   no error, no widget value, default, item list, range, label or button
   changes.  The callback of ditherPosition applies such an update (the
   position entry's default becomes empty and the name menu's default the last
   item), and that of utrReadTime sets the read time label to " ? sec" when
   the read count field is not empty, to the empty string when it is, and
   changes nothing else. *)
C3_TestedCallbacksIgnore ==
    /\ [][(\/ NoneDitherLimits \/ NoneDitherNamedPositions
           \/ NoneExposureTypeList \/ NoneExposureState) => Ignored]_vars
    /\ [][NoneDitherPosition =>
             /\ ditherPosWdg'.defValueStr = ""
             /\ ditherNameWdg'.defValue = Some(ditherNameWdg.items[3])
             /\ UNCHANGED <<expTypeWdg, numReadsWdg, estReadTimeWdg, buttons>>]_vars
    /\ [][NoneUtrReadTime =>
             /\ estReadTimeWdg' = IF numReadsWdg.var = "" THEN "" ELSE " ? sec"
             /\ err' = ""
             /\ UNCHANGED <<ditherNameWdg, ditherPosWdg, expTypeWdg, numReadsWdg,
                            buttons>>]_vars

\* each of the four keywords has had data and then an update without a first
\* element, and the widgets still show the data
C3_Witness ==
    /\ model.ditherLimits[1] = None /\ ditherPosWdg.minValue # None
    /\ model.ditherNamedPositions[1] = None /\ ditherNameWdg.items[1] # "A"
    /\ model.exposureTypeList[1] = None /\ Len(expTypeWdg.items) = 3
    /\ model.exposureState[1] = None /\ numReadsWdg.defValueStr = "10"
    /\ buttons.stopBtn

----------------------------------------------------------------------------
(* The command texts *)

(* C4 as stated: in every reachable state of the dither widgets getDitherCmd
   returns without error: nothing when the selected named position is the
   default, or "Any" is selected and the pixel value is the default or
   missing; "dither namedpos=A" or "dither namedpos=B" when that named
   position is selected; "dither pixelpos=" and the value to two decimals
   when "Any" is selected. *)
C4_AsStated ==
    LET r   == GetDitherCmd(Cur)
        idx == OptionMenuGetIndex(ditherNameWdg)
    IN  /\ r.err = ""
        /\ idx # None
        /\ IF Val(idx) \in {0, 1}
           THEN r.cmd = IF OptionMenuIsDefault(ditherNameWdg) THEN None
                        ELSE Some("dither namedpos=" \o (IF Val(idx) = 0 THEN "A" ELSE "B"))
           ELSE r.cmd = IF EntryIsDefault(ditherPosWdg) \/ ditherPosWdg.var = "" THEN None
                        ELSE Some("dither pixelpos=" \o ditherPosWdg.var)

(* C5: with a read count n >= 1 in the field and type t selected in the type
   menu, getExposureCmd returns "expose nreads=<n>; object=<t>"; 60 reads of
   type Object give "expose nreads=60; object=Object". *)
C5_ExposureCmdText ==
    /\ (numReadsWdg.var # "" /\ StrToInt(numReadsWdg.var) >= 1) =>
           GetExposureCmd(Cur) =
               [err |-> "",
                cmd |-> Some("expose nreads=" \o numReadsWdg.var
                             \o "; object=" \o expTypeWdg.var)]
    /\ (numReadsWdg.var = "60" /\ expTypeWdg.var = "Object") =>
           GetExposureCmd(Cur).cmd = Some("expose nreads=60; object=Object")
    /\ (numReadsWdg.var = "10" /\ expTypeWdg.var = "Flat") =>
           GetExposureCmd(Cur).cmd = Some("expose nreads=10; object=Flat")

\* the user has entered another read count and selected a type that came with
\* the exposureTypeList keyword
C5_Witness ==
    /\ numReadsWdg.var = "10" /\ numReadsWdg.defValueStr = "60"
    /\ expTypeWdg.var = "Flat"
    /\ GetExposureCmd(Cur).err = ""

----------------------------------------------------------------------------
(* Completion of the callbacks *)

\* the handling of a ditherNamedPositions update whose elements are all defined
DefinedDitherNamedPositions ==
    \E v \in KvDitherNamedPositions :
        /\ \A i \in 1..Len(v) : v[i] # None
        /\ Commit(DitherNamedPositionsCallback(Updated("ditherNamedPositions", v),
                                               [key |-> "ditherNamedPositions", vals |-> v]))

(* C7 as stated: handling a ditherNamedPositions update whose elements are all
   defined runs to completion, without error, whatever the ditherPosition
   keyword holds: the menu items are "A  <x> pixels", "B  <y> pixels", "Any"
   and the index selected before is still selected. *)
C7_AsStated ==
    [][DefinedDitherNamedPositions =>
          /\ err' = ""
          /\ ditherNameWdg'.items =
                 << "A  " \o Fmt1f(Val(model'.ditherNamedPositions[1])) \o " pixels",
                    "B  " \o Fmt1f(Val(model'.ditherNamedPositions[2])) \o " pixels",
                    "Any" >>
          /\ OptionMenuGetIndex(ditherNameWdg') = OptionMenuGetIndex(ditherNameWdg)]_vars

----------------------------------------------------------------------------
(* Startup *)

\* the try statement on the actorkeys is behind
PastActorkeys == tui.pc \notin {"Tk", "withdraw", "console", "exists", "refresh", "insert"}

\* the existence check and the download, if one was tried, raised nothing
ActorkeysOk == tui.actorkeys \in {"present", "downloaded"}

\* the model is made, the windows are loaded and the reactor runs
Running ==
    /\ tui.pc = "reactor" /\ tui.reactor
    /\ tui.tuiModel /\ tui.stdModules
    /\ tui.addPathList # None /\ tui.windows = Val(tui.addPathList)

(* C11: a failed download of the actorkeys does not end runTUI and does not
   put the location of the downloaded actorkeys on sys.path; the location is
   put at the front of sys.path exactly when the existence check and the
   download, if tried, raised nothing; either way runTUI goes on to make the
   TUI model, load the windows and run the reactor; the Tk root is withdrawn
   before the TUI model is made. *)
C11_StartupSurvivesDownloadFailure ==
    /\ [](tui.actorkeys = "failed" =>
              /\ tui.raised = "" /\ tui.pc # "aborted"
              /\ ~SeqHas(tui.sysPath, STUIPath))
    /\ [][RefreshActorkeysFailed =>
              tui'.pc = "getModel" /\ tui'.sysPath = tui.sysPath]_vars
    /\ [](IF PastActorkeys
          THEN tui.sysPath = (IF ActorkeysOk THEN <<STUIPath>> ELSE <<>>)
                             \o tui.startPath
                             \o (IF tui.addPathList = None THEN <<>>
                                 ELSE Val(tui.addPathList))
          ELSE tui.sysPath = tui.startPath)
    /\ [](PastActorkeys => (ActorkeysOk <=> tui.actorkeys # "failed"))
    /\ (tui.actorkeys = "failed") ~> Running
    /\ ActorkeysOk ~> Running
    /\ [][~tui.tuiModel /\ tui'.tuiModel => tui.tkRoot = "withdrawn"]_vars
    /\ [](tui.tuiModel => tui.tkRoot = "withdrawn")

\* the download failed under a $PYTHONPATH, and the reactor runs with the
\* windows of both additions directories loaded
C11_Witness ==
    /\ tui.actorkeys = "failed"
    /\ tui.stdout[2] = "Failed downloading actorkeys IOError"
    /\ tui.sysPath = <<"pythonpath", "lib", "shared", "user">>
    /\ Running

====
